---- MODULE Spec2Model ----
(***************************************************************************)
(* Model of the strong-units crate (src/src/lib.rs, macros.rs, units.rs).  *)
(*                                                                         *)
(* The crate is a set of trait impls produced by four declaration macros   *)
(* and a generic Measurement<U> whose operators are guarded by where       *)
(* clauses.  The state of the model is the set of impls the declarations   *)
(* made so far have produced, plus the last operation that was applied to  *)
(* measurements.  An operation whose where clause does not hold does not   *)
(* compile: its action is not enabled.                                     *)
(*                                                                         *)
(* Magnitudes (f64 in the source) are exact rationals <<n, d>>, d > 0, in  *)
(* lowest terms: the arithmetic is done in the order the code does it, but *)
(* f64 rounding and overflow are not represented.                          *)
(***************************************************************************)
EXTENDS Integers, Sequences, FiniteSets, TLC

VARIABLES
    crate,   \* the impls the declarations made so far expand to
    ndecl,   \* number of macro invocations made after the catalogue
    last     \* the last operation applied to measurements, and its result

vars == <<crate, ndecl, last>>

----------------------------------------------------------------------------
(* Bounds *)

\* number of macro invocations made after the catalogue of units.rs
MaxDecls == 5

\* fractional digits FmtF64 writes before it stops
MaxFracDigits == 4

----------------------------------------------------------------------------
(* f64 magnitudes as rationals *)

Abs(x) == IF x < 0 THEN -x ELSE x

RECURSIVE GCD(_, _)
GCD(a, b) == IF b = 0 THEN a ELSE GCD(b, a % b)

Norm(n, d) ==
    LET g == GCD(Abs(n), Abs(d))
        s == IF d < 0 THEN -1 ELSE 1
    IN  <<(s * n) \div g, (s * d) \div g>>

R(n) == <<n, 1>>

\* a * b, reducing across before multiplying
FMul(a, b) ==
    LET g1 == GCD(Abs(a[1]), b[2])
        g2 == GCD(Abs(b[1]), a[2])
    IN  Norm((a[1] \div g1) * (b[1] \div g2), (a[2] \div g2) * (b[2] \div g1))

\* a / b, b nonzero
FDiv(a, b) == FMul(a, IF b[1] < 0 THEN <<-b[2], -b[1]>> ELSE <<b[2], b[1]>>)

FAdd(a, b) ==
    LET g == GCD(a[2], b[2])
    IN  Norm(a[1] * (b[2] \div g) + b[1] * (a[2] \div g), (a[2] \div g) * b[2])

FNeg(a) == <<-a[1], a[2]>>

FSub(a, b) == FAdd(a, FNeg(b))

FLt(a, b) == a[1] * b[2] < b[1] * a[2]

\* f64::partial_cmp on non-NaN values
FPartialCmp(a, b) == IF FLt(a, b) THEN "Less" ELSE IF FLt(b, a) THEN "Greater" ELSE "Equal"

----------------------------------------------------------------------------
(* Unit types: an ident is <<name>>, DivUnit<N, D> is <<"DivUnit", N, D>> *)

Id(name) == <<name>>

DivUnit(N, D) == <<"DivUnit", N, D>>

IsDiv(T) == Len(T) = 3

----------------------------------------------------------------------------
(* The declaration macros, as functions from a crate to a crate.           *)
(* A crate is a record:                                                    *)
(*   symbol            ident -> the string MeasureUnit::symbol returns     *)
(*   aliased           ident -> MeasureUnit::AliasedUnit                   *)
(*   from_unit         the concrete `impl FromUnit<from> for to` items;    *)
(*                     kind "linear": value * a / b, kind "expr": the      *)
(*                     closure of a non-linear declaration, value * a + b  *)
(*   from_unit_linear  <<from, to>> for `impl FromUnitLinear<from> for to` *)
(*   alias_from        the blanket `impl<T: FromUnit<unit>>                *)
(*                     FromUnit<alias> for T` items                        *)

EmptyCrate ==
    [symbol |-> <<>>, aliased |-> <<>>, from_unit |-> {},
     from_unit_linear |-> {}, alias_from |-> {}]

Extend(f, k, v) == [x \in DOMAIN f \cup {k} |-> IF x = k THEN v ELSE f[x]]

define_unit(c, id, sym) ==
    [c EXCEPT !.symbol = Extend(@, id, sym),
              !.aliased = Extend(@, id, Id(id))]

define_alias(c, unit, aliasunit, sym) ==
    [c EXCEPT !.symbol = Extend(@, aliasunit, sym),
              !.aliased = Extend(@, aliasunit, unit),
              !.alias_from = @ \cup {[alias |-> aliasunit, unit |-> unit]}]

define_nonlinear_conversion(c, from_unit, to_unit, expr) ==
    [c EXCEPT !.from_unit = @ \cup
        {[from |-> from_unit, to |-> to_unit, kind |-> "expr",
          a |-> expr[1], b |-> expr[2]]}]

define_nonlinear_conversion_pair(c, first_unit, last_unit, first_expr, last_expr) ==
    define_nonlinear_conversion(
        define_nonlinear_conversion(c, first_unit, last_unit, first_expr),
        last_unit, first_unit, last_expr)

\* @impl_from_unit from:(lunit, lmul), to:(runit, rmul)
impl_from_unit(c, l, r) ==
    [c EXCEPT !.from_unit_linear = @ \cup {<<l[1], r[1]>>},
              !.from_unit = @ \cup
                 {[from |-> l[1], to |-> r[1], kind |-> "linear",
                   a |-> R(l[2]), b |-> R(r[2])]}]

\* @cartesian_product (lunit, lmul); rs...
RECURSIVE cartesian_product_one(_, _, _)
cartesian_product_one(c, l, rs) ==
    IF rs = <<>> THEN c
    ELSE cartesian_product_one(impl_from_unit(c, l, Head(rs)), l, Tail(rs))

\* @cartesian_product lhead ls...; rs...
RECURSIVE cartesian_product(_, _, _)
cartesian_product(c, ls, rs) ==
    IF ls = <<>> THEN c
    ELSE cartesian_product(cartesian_product_one(c, Head(ls), rs), Tail(ls), rs)

\* the expansion without the conversions into the first unit listed
define_linear_conversions_headless(c, list) == cartesian_product(c, list, Tail(list))

define_linear_conversions(c, list) == cartesian_product(c, list, list)

----------------------------------------------------------------------------
(* The catalogue of units.rs, in part: the time family, two units of the   *)
(* bit family and one transmission speed alias                             *)

CatalogueUnits ==
    << <<"Second", "s">>, <<"Minute", "min">>, <<"Hour", "h">>,
       <<"Kilobit", "Kb">>, <<"Megabit", "Mb">> >>

TimeFamily == << <<"Second", 1>>, <<"Minute", 60>>, <<"Hour", 3600>> >>

BitFamily == << <<"Kilobit", 1000>>, <<"Megabit", 1000000>> >>

CatalogueAliases ==
    << <<DivUnit(Id("Kilobit"), Id("Second")), "Kbps", "Kbps">> >>

RECURSIVE DeclUnits(_, _)
DeclUnits(c, us) ==
    IF us = <<>> THEN c
    ELSE DeclUnits(define_unit(c, Head(us)[1], Head(us)[2]), Tail(us))

RECURSIVE DeclAliases(_, _)
DeclAliases(c, as) ==
    IF as = <<>> THEN c
    ELSE DeclAliases(define_alias(c, Head(as)[1], Head(as)[2], Head(as)[3]), Tail(as))

Catalogue ==
    DeclAliases(
        define_linear_conversions(
            define_linear_conversions(DeclUnits(EmptyCrate, CatalogueUnits), TimeFamily),
            BitFamily),
        CatalogueAliases)

----------------------------------------------------------------------------
(* Trait resolution over the impls of the crate *)

Idents == DOMAIN crate.symbol

\* T: MeasureUnit
RECURSIVE MeasureUnit(_)
MeasureUnit(T) ==
    IF IsDiv(T) THEN MeasureUnit(T[2]) /\ MeasureUnit(T[3])
    ELSE T[1] \in Idents

\* the symbol of the underlying unit
RECURSIVE SymbolOfAliased(_)
SymbolOfAliased(T) ==
    IF IsDiv(T) THEN SymbolOfAliased(T[2]) \o "/" \o SymbolOfAliased(T[3])
    ELSE IF crate.aliased[T[1]] = T THEN crate.symbol[T[1]]
    ELSE SymbolOfAliased(crate.aliased[T[1]])

\* <T as MeasureUnit>::symbol()
RECURSIVE Symbol(_)
Symbol(T) ==
    IF IsDiv(T) THEN Symbol(T[2]) \o "/" \o Symbol(T[3])
    ELSE crate.symbol[T[1]]

\* <T as MeasureUnit>::AliasedUnit
AliasedUnit(T) == IF IsDiv(T) THEN T ELSE crate.aliased[T[1]]

\* the impls of from and to units, with those reached through one
\* intermediate unit added
ConcreteImplsComposed(T, S) ==
    IF IsDiv(T) \/ IsDiv(S) THEN {}
    ELSE {i \in crate.from_unit :
            /\ i.to = T[1]
            /\ \/ i.from = S[1]
               \/ \E j \in crate.from_unit : j.from = S[1] /\ j.to = i.from}

\* the impl FromUnit<S> for T items of the declarations
ConcreteImpls(T, S) ==
    IF IsDiv(T) \/ IsDiv(S) THEN {}
    ELSE {i \in crate.from_unit : i.from = S[1] /\ i.to = T[1]}

\* the linear mark taken from any FromUnit impl
FromUnitLinearUnmarked(T, S) == ConcreteImpls(T, S) # {}

\* T: FromUnitLinear<S>
FromUnitLinear(T, S) ==
    /\ ~IsDiv(T)
    /\ ~IsDiv(S)
    /\ <<S[1], T[1]>> \in crate.from_unit_linear

AliasImpls(S) ==
    IF IsDiv(S) THEN {} ELSE {i \in crate.alias_from : i.alias = S[1]}

\* the where clause of impl FromUnit<DivUnit<N, D>> for DivUnit<N1, D1>
DivImplApplies(T, S) ==
    /\ IsDiv(T)
    /\ IsDiv(S)
    /\ MeasureUnit(T)
    /\ MeasureUnit(S)
    /\ FromUnitLinear(T[2], S[2])
    /\ FromUnitLinear(T[3], S[3])

\* T: FromUnit<S>
RECURSIVE FromUnit(_, _)
FromUnit(T, S) ==
    \/ ConcreteImpls(T, S) # {}
    \/ DivImplApplies(T, S)
    \/ \E i \in AliasImpls(S) : FromUnit(T, i.unit)

----------------------------------------------------------------------------
(* Measurement<U> *)

new(U, value) == [unit |-> U, value |-> value]

\* the body without the division by the scale of the target
linear_from_value_undivided(input, lmul, rmul) == FMul(input, lmul)

\* the body of a define_linear_conversions impl: input * lmul / rmul
linear_from_value(input, lmul, rmul) == FDiv(FMul(input, lmul), rmul)

\* do_conversion of a define_nonlinear_conversion impl; the closures the
\* model declares are of the form |x| x * a + b
do_conversion(i, arg) == FAdd(FMul(arg, i.a), i.b)

\* the ratio impl multiplying by the converted denominator
div_from_value_times(n1, div) == FMul(n1, div)

\* the last line of DivUnit's from_value
div_from_value(n1, div) == FDiv(n1, div)

\* <T as FromUnit<S>>::from_value(Measurement::<S>::new(value)).value()
RECURSIVE from_value(_, _, _)
from_value(T, S, value) ==
    IF ConcreteImpls(T, S) # {}
    THEN LET i == CHOOSE i \in ConcreteImpls(T, S) : TRUE
         IN  IF i.kind = "linear"
             THEN linear_from_value(value, i.a, i.b)
             ELSE do_conversion(i, value)
    ELSE IF DivImplApplies(T, S)
    THEN div_from_value(from_value(T[2], S[2], value), from_value(T[3], S[3], R(1)))
    ELSE LET i == CHOOSE i \in AliasImpls(S) : FromUnit(T, i.unit)
         IN  from_value(T, i.unit, value)

\* the unit into_unit::<V> asks a FromUnit impl of
into_unit_target(V) == AliasedUnit(V)

\* the where clause of into_unit and of every binary operator:
\* V: MeasureUnit, V::AliasedUnit: FromUnit<U>
into_unit_where(U, V) == MeasureUnit(V) /\ FromUnit(into_unit_target(V), U)

\* into_unit that re-tags without converting
into_unit_unconverted(self, V) == new(V, self.value)

into_unit(self, V) == new(V, from_value(into_unit_target(V), self.unit, self.value))

add(self, rhs) == new(self.unit, FAdd(self.value, into_unit(rhs, self.unit).value))

sub(self, rhs) == new(self.unit, FSub(self.value, into_unit(rhs, self.unit).value))

add_assign(self, rhs) == [self EXCEPT !.value = FAdd(@, into_unit(rhs, self.unit).value)]

sub_assign(self, rhs) == [self EXCEPT !.value = FSub(@, into_unit(rhs, self.unit).value)]

partial_cmp(self, other) == FPartialCmp(self.value, into_unit(other, self.unit).value)

eq(self, other) == self.value = into_unit(other, self.unit).value

----------------------------------------------------------------------------
(* Display *)

Digit(k) == <<"0", "1", "2", "3", "4", "5", "6", "7", "8", "9">>[k + 1]

RECURSIVE IntStr(_)
IntStr(n) == IF n < 10 THEN Digit(n) ELSE IntStr(n \div 10) \o Digit(n % 10)

RECURSIVE FracStr(_, _, _)
FracStr(r, d, k) ==
    IF r = 0 \/ k = 0 THEN ""
    ELSE Digit((10 * r) \div d) \o FracStr((10 * r) % d, d, k - 1)

\* <f64 as Display>::fmt: the decimal expansion, no fraction for an integer
FmtF64(v) ==
    LET n == Abs(v[1])
        frac == FracStr(n % v[2], v[2], MaxFracDigits)
    IN  (IF v[1] < 0 THEN "-" ELSE "")
        \o IntStr(n \div v[2])
        \o (IF frac = "" THEN "" ELSE "." \o frac)

fmt(self) == FmtF64(self.value) \o " " \o Symbol(self.unit)

----------------------------------------------------------------------------
(* Inputs *)

\* idents a user of the macros declares, with their symbols
UserUnits == {"U1", "U2", "U3"}

AliasUnits == {"A1"}

UserSymbol(id) ==
    CASE id = "U1" -> "u1" [] id = "U2" -> "u2" [] id = "U3" -> "u3"
      [] id = "A1" -> "a1"

\* closures |x| x * a + b of non-linear declarations
Exprs == { << <<9, 5>>, <<32, 1>> >>, << <<5, 9>>, <<-160, 9>> >> }

\* argument lists of define_linear_conversions
LinearLists ==
    { << <<"U1", 1>>, <<"U2", 12>> >>,
      << <<"U3", 1>> >> }

\* the $unit:ty of define_alias
AliasTargets == { Id("U1"), Id("Kbps"), DivUnit(Id("Megabit"), Id("Hour")) }

RatioUnits ==
    { DivUnit(Id("Kilobit"), Id("Second")), DivUnit(Id("Megabit"), Id("Hour")),
      DivUnit(Id("U1"), Id("Second")), DivUnit(Id("U2"), Id("Second")),
      DivUnit(Id("Kilobit"), Id("U1")) }

\* the unit types measurements are made of
OperandUnits ==
    {Id(n) : n \in Idents} \cup {U \in RatioUnits : MeasureUnit(U)}

Magnitudes == { R(2), <<-1, 2>> }

\* further operands, with the magnitudes the examples of the crate use
ExampleOperands ==
    { new(Id("Second"), R(3600)),
      new(DivUnit(Id("Megabit"), Id("Hour")), R(1)),
      new(DivUnit(Id("Kilobit"), Id("Second")), R(1)) }

Operands ==
    {new(U, v) : U \in OperandUnits, v \in Magnitudes} \cup ExampleOperands

\* the measurements the Display tests format
DisplayOperands ==
    { new(Id("Hour"), <<2121, 50>>),
      new(DivUnit(Id("Kilobit"), Id("Second")), <<2121, 50>>),
      new(Id("Kbps"), <<2121, 50>>) }

NoUnit == <<"-">>

NoMeasurement == new(NoUnit, R(0))

Done(op, lhs, rhs, target, out, flag, text) ==
    [op |-> op, lhs |-> lhs, rhs |-> rhs, target |-> target,
     out |-> out, flag |-> flag, text |-> text]

----------------------------------------------------------------------------
(* Declarations.  A declaration the compiler rejects (a struct defined     *)
(* twice, two impls of one trait for one type) is not made.                *)

\* nothing has been applied to a measurement yet: declarations are made
\* before the program runs, and the operations are pure
Idle == last.op = "none"

NoImpl(from, to) == ConcreteImpls(Id(to), Id(from)) = {}

Listed(list) == {list[k][1] : k \in DOMAIN list}

DefineUnit ==
    /\ Idle
    /\ ndecl < MaxDecls
    /\ \E id \in UserUnits \ Idents :
          crate' = define_unit(crate, id, UserSymbol(id))
    /\ ndecl' = ndecl + 1
    /\ UNCHANGED last

DefineAlias ==
    /\ Idle
    /\ ndecl < MaxDecls
    /\ \E aliasunit \in AliasUnits \ Idents, unit \in AliasTargets :
          /\ MeasureUnit(unit)
          /\ crate' = define_alias(crate, unit, aliasunit, UserSymbol(aliasunit))
    /\ ndecl' = ndecl + 1
    /\ UNCHANGED last

DefineNonlinearConversion ==
    /\ Idle
    /\ ndecl < MaxDecls
    /\ \E from \in UserUnits \cap Idents, expr \in Exprs :
       \E to \in (UserUnits \cap Idents) \ {from} :
          /\ NoImpl(from, to)
          /\ crate' = define_nonlinear_conversion(crate, from, to, expr)
    /\ ndecl' = ndecl + 1
    /\ UNCHANGED last

DefineNonlinearConversionPair ==
    /\ Idle
    /\ ndecl < MaxDecls
    /\ \E first \in UserUnits \cap Idents, first_expr \in Exprs :
       \E second \in (UserUnits \cap Idents) \ {first}, last_expr \in Exprs \ {first_expr} :
          /\ NoImpl(first, second)
          /\ NoImpl(second, first)
          /\ crate' = define_nonlinear_conversion_pair(
                          crate, first, second, first_expr, last_expr)
    /\ ndecl' = ndecl + 1
    /\ UNCHANGED last

DefineLinearConversions ==
    /\ Idle
    /\ ndecl < MaxDecls
    /\ \E list \in LinearLists :
          /\ Listed(list) \subseteq Idents
          /\ \A l \in Listed(list), r \in Listed(list) : NoImpl(l, r)
          /\ crate' = define_linear_conversions(crate, list)
    /\ ndecl' = ndecl + 1
    /\ UNCHANGED last

----------------------------------------------------------------------------
(* Operations on measurements *)

IntoUnit ==
    /\ Idle
    /\ \E self \in Operands, V \in OperandUnits :
          /\ into_unit_where(self.unit, V)
          /\ last' = Done("into_unit", self, NoMeasurement, V,
                          into_unit(self, V), FALSE, "")
    /\ UNCHANGED <<crate, ndecl>>

Add ==
    /\ Idle
    /\ \E self \in Operands, rhs \in Operands :
          /\ into_unit_where(rhs.unit, self.unit)
          /\ last' = Done("add", self, rhs, NoUnit, add(self, rhs), FALSE, "")
    /\ UNCHANGED <<crate, ndecl>>

Sub ==
    /\ Idle
    /\ \E self \in Operands, rhs \in Operands :
          /\ into_unit_where(rhs.unit, self.unit)
          /\ last' = Done("sub", self, rhs, NoUnit, sub(self, rhs), FALSE, "")
    /\ UNCHANGED <<crate, ndecl>>

AddAssign ==
    /\ Idle
    /\ \E self \in Operands, rhs \in Operands :
          /\ into_unit_where(rhs.unit, self.unit)
          /\ last' = Done("add_assign", self, rhs, NoUnit,
                          add_assign(self, rhs), FALSE, "")
    /\ UNCHANGED <<crate, ndecl>>

SubAssign ==
    /\ Idle
    /\ \E self \in Operands, rhs \in Operands :
          /\ into_unit_where(rhs.unit, self.unit)
          /\ last' = Done("sub_assign", self, rhs, NoUnit,
                          sub_assign(self, rhs), FALSE, "")
    /\ UNCHANGED <<crate, ndecl>>

PartialCmp ==
    /\ Idle
    /\ \E self \in Operands, other \in Operands :
          /\ into_unit_where(other.unit, self.unit)
          /\ last' = Done("partial_cmp", self, other, NoUnit, NoMeasurement,
                          FALSE, partial_cmp(self, other))
    /\ UNCHANGED <<crate, ndecl>>

Eq ==
    /\ Idle
    /\ \E self \in Operands, other \in Operands :
          /\ into_unit_where(other.unit, self.unit)
          /\ last' = Done("eq", self, other, NoUnit, NoMeasurement,
                          eq(self, other), "")
    /\ UNCHANGED <<crate, ndecl>>

Fmt ==
    /\ Idle
    /\ \E self \in Operands \cup DisplayOperands :
          /\ MeasureUnit(self.unit)
          /\ last' = Done("fmt", self, NoMeasurement, NoUnit, NoMeasurement,
                          FALSE, fmt(self))
    /\ UNCHANGED <<crate, ndecl>>

----------------------------------------------------------------------------

Init ==
    /\ crate = Catalogue
    /\ ndecl = 0
    /\ last = Done("none", NoMeasurement, NoMeasurement, NoUnit, NoMeasurement,
                   FALSE, "")

Next ==
    \/ DefineUnit
    \/ DefineAlias
    \/ DefineNonlinearConversion
    \/ DefineNonlinearConversionPair
    \/ DefineLinearConversions
    \/ IntoUnit
    \/ Add
    \/ Sub
    \/ AddAssign
    \/ SubAssign
    \/ PartialCmp
    \/ Eq
    \/ Fmt

Spec == Init /\ [][Next]_vars

----------------------------------------------------------------------------
(* What the declarations say, read off the declaration lists rather than   *)
(* resolved through the impls                                              *)

BinaryOps == {"add", "sub", "add_assign", "sub_assign", "eq", "partial_cmp"}

FamilyLists == {TimeFamily, BitFamily} \cup LinearLists

\* the scale literal of a unit in the list that names it
ScaleOf(id) ==
    LET list == CHOOSE l \in FamilyLists : id \in Listed(l)
        k == CHOOSE k \in DOMAIN list : list[k][1] = id
    IN  R(list[k][2])

\* the list has been given to define_linear_conversions
DeclaredList(list) ==
    \E i \in crate.from_unit :
        i.kind = "linear" /\ (i.from \in Listed(list) \/ i.to \in Listed(list))

SameFamily(x, y) ==
    \E list \in FamilyLists : DeclaredList(list) /\ {x, y} \subseteq Listed(list)

NonlinearDeclared(x, y) ==
    \E i \in crate.from_unit : i.kind = "expr" /\ i.from = x /\ i.to = y

IsSimple(T) == ~IsDiv(T)

SameFamilyUnits(X, Y) ==
    \/ IsSimple(X) /\ IsSimple(Y) /\ SameFamily(X[1], Y[1])
    \/ /\ IsDiv(X) /\ IsDiv(Y)
       /\ IsSimple(X[2]) /\ IsSimple(Y[2]) /\ SameFamily(X[2][1], Y[2][1])
       /\ IsSimple(X[3]) /\ IsSimple(Y[3]) /\ SameFamily(X[3][1], Y[3][1])

\* value * scale(from) / scale(to)
Scaled(value, from, to) == FDiv(FMul(value, ScaleOf(from)), ScaleOf(to))

FAbs(a) == <<Abs(a[1]), a[2]>>

\* the source and target units of the conversion the last operation made
LastSource == IF last.op = "into_unit" THEN last.lhs.unit ELSE last.rhs.unit

LastTarget == IF last.op = "into_unit" THEN last.target ELSE last.lhs.unit

LastConverts == last.op \in BinaryOps \cup {"into_unit"}

----------------------------------------------------------------------------
(* C1 *)

----------------------------------------------------------------------------
(* C2 *)

\* C2: converting magnitude v from DivUnit<N, D> to DivUnit<N1, D1> gives
\* v * (s(N) / s(N1)) / (s(D) / s(D1)); Megabit/Hour x plus Kilobit/Second y
\* is in Megabit/Hour with value x + y * 3600 / 1000, and likewise for sub.
C2_RatioConversion ==
    LET MbH == DivUnit(Id("Megabit"), Id("Hour"))
        KbS == DivUnit(Id("Kilobit"), Id("Second"))
        x == last.lhs.value
        y == last.rhs.value
        y1 == FDiv(FMul(y, R(3600)), R(1000))
    IN  /\ (last.op = "into_unit" /\ IsDiv(last.lhs.unit) /\ IsDiv(last.target)) =>
              LET S == last.lhs.unit
                  T == last.target
              IN  last.out =
                      new(T, FDiv(FMul(x, FDiv(ScaleOf(S[2][1]), ScaleOf(T[2][1]))),
                                  FDiv(ScaleOf(S[3][1]), ScaleOf(T[3][1]))))
        /\ (last.op = "add" /\ last.lhs.unit = MbH /\ last.rhs.unit = KbS) =>
              last.out = new(MbH, FAdd(x, y1))
        /\ (last.op = "sub" /\ last.lhs.unit = MbH /\ last.rhs.unit = KbS) =>
              last.out = new(MbH, FSub(x, y1))

\* 1.0 Mb/h + 1.0 Kb/s = 4.6 Mb/h
C2_Witness ==
    /\ last.op = "add"
    /\ last.lhs = new(DivUnit(Id("Megabit"), Id("Hour")), R(1))
    /\ last.rhs = new(DivUnit(Id("Kilobit"), Id("Second")), R(1))
    /\ last.out = new(DivUnit(Id("Megabit"), Id("Hour")), <<23, 5>>)

----------------------------------------------------------------------------
(* C3 *)

LinearImplsOf(S) ==
    {i \in crate.from_unit : i.kind = "linear" /\ (i.from \in S \/ i.to \in S)}

\* C3: one define_linear_conversions over N (unit, scale) pairs gives, for
\* each of the N * N ordered pairs of listed units, the pair (L, L) included,
\* a conversion value * scale(L) / scale(R) marked linear, and nothing to or
\* from a unit that is not listed.  (The impls are examined in the states
\* before an operation is applied: an operation leaves them as they are.)
C3_LinearFamilyIsComplete ==
    /\ \A list \in FamilyLists : (Idle /\ DeclaredList(list)) =>
          LET S == Listed(list)
              N == Len(list)
          IN  /\ \A l \in 1..N, r \in 1..N :
                    LET L == Id(list[l][1])
                        Rt == Id(list[r][1])
                    IN  /\ FromUnit(Rt, L)
                        /\ FromUnitLinear(Rt, L)
                        /\ \A v \in Magnitudes :
                              from_value(Rt, L, v) =
                                  FDiv(FMul(v, R(list[l][2])), R(list[r][2]))
              /\ Cardinality(LinearImplsOf(S)) = N * N
              /\ \A i \in LinearImplsOf(S) : {i.from, i.to} \subseteq S
              /\ \A pr \in crate.from_unit_linear :
                    (pr[1] \in S \/ pr[2] \in S) => {pr[1], pr[2]} \subseteq S
    /\ (last.op = "into_unit" /\ IsSimple(last.lhs.unit) /\ IsSimple(last.target)
            /\ SameFamily(last.lhs.unit[1], last.target[1])) =>
          last.out = new(last.target,
                         Scaled(last.lhs.value, last.lhs.unit[1], last.target[1]))

\* a family declared by the user, and a conversion inside it: 2 u1 = 1/6 u2
C3_Witness ==
    /\ DeclaredList(<< <<"U1", 1>>, <<"U2", 12>> >>)
    /\ "U3" \in Idents
    /\ last.op = "into_unit"
    /\ last.lhs = new(Id("U1"), R(2))
    /\ last.out = new(Id("U2"), <<1, 6>>)

----------------------------------------------------------------------------
(* C4 *)

\* C4: alias transparency.  For an alias A declared over U, and any unit X,
\* a conversion with A as the source is available exactly when it is with U
\* as the source, one with A as the target exactly when it is with U as the
\* target, and the magnitudes agree.
C4_AliasTransparency ==
    \A i \in crate.alias_from :
        LET A == Id(i.alias)
            U == i.unit
        IN  \A X \in OperandUnits :
              /\ into_unit_where(A, X) <=> into_unit_where(U, X)
              /\ into_unit_where(X, A) <=> into_unit_where(X, U)
              /\ \A v \in Magnitudes :
                    /\ into_unit_where(A, X) =>
                          into_unit(new(A, v), X) = into_unit(new(U, v), X)
                    /\ into_unit_where(X, A) =>
                          into_unit(new(X, v), A).value = into_unit(new(X, v), U).value

----------------------------------------------------------------------------
(* C5 *)

\* C5: self-conversion.  For every declared unit U, a unit declared with
\* define_unit alone and a ratio unit over such units included, converting
\* Measurement<U>(v) into U type-checks and returns v.
C5_SelfConversion ==
    \A U \in OperandUnits :
        /\ into_unit_where(U, U)
        /\ \A v \in Magnitudes : into_unit(new(U, v), U) = new(U, v)

----------------------------------------------------------------------------
(* C6 *)

\* the ordered pair (X, Y) has a relation by a linear-family declaration, a
\* non-linear declaration, ratio synthesis or alias delegation
RECURSIVE Established(_, _)
Established(X, Y) ==
    \/ /\ IsSimple(X) /\ IsSimple(Y)
       /\ SameFamily(X[1], Y[1]) \/ NonlinearDeclared(X[1], Y[1])
    \/ /\ IsDiv(X) /\ IsDiv(Y) /\ SameFamilyUnits(X, Y)
    \/ /\ IsSimple(X)
       /\ X[1] \in Idents
       /\ crate.aliased[X[1]] # X
       /\ Established(crate.aliased[X[1]], Y)

\* C6: a conversion from X to Y, and so an operator with left unit Y and
\* right unit X, is accepted only if the ordered pair (X, AliasedUnit of Y)
\* has a relation of its own: relations are not composed through a third
\* unit and units of two families are not convertible.
C6_OnlyDeclaredPairsConvert ==
    LastConverts => Established(LastSource, AliasedUnit(LastTarget))

\* U1 -> U2 and U2 -> U3 are declared, U1 -> U3 is not, and a U1 measurement
\* has been converted into U2
C6_Witness ==
    /\ NonlinearDeclared("U1", "U2")
    /\ NonlinearDeclared("U2", "U3")
    /\ ~NonlinearDeclared("U1", "U3")
    /\ last.op = "into_unit"
    /\ last.lhs.unit = Id("U1")
    /\ last.target = Id("U2")

----------------------------------------------------------------------------
(* C7 *)

\* the symbols as the declarations give them
DeclaredSymbol(id) ==
    IF \E k \in DOMAIN CatalogueUnits : CatalogueUnits[k][1] = id
    THEN CatalogueUnits[CHOOSE k \in DOMAIN CatalogueUnits : CatalogueUnits[k][1] = id][2]
    ELSE IF \E k \in DOMAIN CatalogueAliases : CatalogueAliases[k][2] = id
    THEN CatalogueAliases[CHOOSE k \in DOMAIN CatalogueAliases : CatalogueAliases[k][2] = id][3]
    ELSE UserSymbol(id)

\* the default rendering of the magnitudes the operands have
Rendered(v) ==
    CASE v = R(1) -> "1"
      [] v = R(2) -> "2"
      [] v = R(3600) -> "3600"
      [] v = <<-1, 2>> -> "-0.5"
      [] v = <<2121, 50>> -> "42.42"

\* C7: Display writes the default rendering of the magnitude, one space,
\* and the symbol of U: the declared symbol of a simple unit ("42.42 h"),
\* symbol(N) "/" symbol(D) of a ratio unit ("42.42 Kb/s"), and the alias's
\* own symbol of an alias unit ("42.42 Kbps").
C7_DisplayFormat ==
    last.op = "fmt" =>
        LET U == last.lhs.unit
            v == last.lhs.value
            sym == IF IsDiv(U)
                   THEN DeclaredSymbol(U[2][1]) \o "/" \o DeclaredSymbol(U[3][1])
                   ELSE DeclaredSymbol(U[1])
        IN  /\ last.text = Rendered(v) \o " " \o sym
            /\ last.lhs = new(Id("Hour"), <<2121, 50>>) => last.text = "42.42 h"
            /\ last.lhs = new(DivUnit(Id("Kilobit"), Id("Second")), <<2121, 50>>) =>
                  last.text = "42.42 Kb/s"
            /\ last.lhs = new(Id("Kbps"), <<2121, 50>>) => last.text = "42.42 Kbps"

\* an alias measurement has been formatted
C7_Witness ==
    /\ last.op = "fmt"
    /\ last.lhs = new(Id("Kbps"), <<2121, 50>>)
    /\ last.text = "42.42 Kbps"

----------------------------------------------------------------------------
(* C8 *)

----------------------------------------------------------------------------
(* C9 *)

DeclaredRatioUnits == {U \in RatioUnits : MeasureUnit(U)}

\* C9: DivUnit<N1, D1> converts from DivUnit<N, D> exactly when N1 has a
\* relation from N and D1 one from D that define_linear_conversions made; a
\* relation made by define_nonlinear_conversion does not count.  (The impls
\* are examined in the states before an operation is applied.)
C9_RatioNeedsLinearMarks ==
    /\ Idle => \A S \in DeclaredRatioUnits, T \in DeclaredRatioUnits :
          FromUnit(T, S) <=>
              SameFamily(S[2][1], T[2][1]) /\ SameFamily(S[3][1], T[3][1])
    /\ (LastConverts /\ IsDiv(LastSource) /\ IsDiv(LastTarget)) =>
          /\ SameFamily(LastSource[2][1], LastTarget[2][1])
          /\ SameFamily(LastSource[3][1], LastTarget[3][1])

\* U1 -> U2 is declared non-linear, the ratio units over U1 and U2 exist
\* and do not convert, and a ratio conversion over two families has been made
C9_Witness ==
    /\ NonlinearDeclared("U1", "U2")
    /\ ~SameFamily("U1", "U2")
    /\ DivUnit(Id("U1"), Id("Second")) \in DeclaredRatioUnits
    /\ DivUnit(Id("U2"), Id("Second")) \in DeclaredRatioUnits
    /\ ~FromUnit(DivUnit(Id("U2"), Id("Second")), DivUnit(Id("U1"), Id("Second")))
    /\ last.op = "into_unit"
    /\ last.lhs.unit = DivUnit(Id("Kilobit"), Id("Second"))
    /\ last.target = DivUnit(Id("Megabit"), Id("Hour"))

----------------------------------------------------------------------------
(* C10 *)

\* C10: alias chains resolve to the canonical unit.  If A2 is an alias of
\* A1 and A1 an alias of a canonical unit U, every X with a relation X -> U
\* converts into A2 with the magnitude it converts into U with, and A2 is a
\* source wherever U is.
C10_AliasChainsResolve ==
    \A i \in crate.alias_from, j \in crate.alias_from :
        (i.unit = Id(j.alias) /\ AliasedUnit(j.unit) = j.unit) =>
            LET A2 == Id(i.alias)
                U == j.unit
            IN  \A X \in OperandUnits :
                  /\ FromUnit(U, X) =>
                        /\ into_unit_where(X, A2)
                        /\ \A v \in Magnitudes :
                              into_unit(new(X, v), A2).value = from_value(U, X, v)
                  /\ into_unit_where(U, X) => into_unit_where(A2, X)

====
